---- MODULE Spec2Model ----
(***************************************************************************)
(* A model of the B-tree set of src/src/b-tree.hxx (class BTree<K,MIN_DEG> *)
(* and class BTreeNode<K,MIN_DEG>, the revision with insert).              *)
(*                                                                         *)
(* Nodes live in a heap `mem` (a sequence of node records, a node's        *)
(* address being its position); unique_ptr and raw pointers are addresses, *)
(* nullptr is NULL.  Arrays keep the source's fixed capacity and 0-based   *)
(* indices, so stale slots beyond n_keys_ / n_children_ are part of the    *)
(* state exactly as in the program.  Undefined behaviour (following a null *)
(* child slot or a dangling parent_, an index outside an array) and a      *)
(* failed assert() (the build type is Debug, Options.cmake) leave the call *)
(* without a defined result:                                               *)
(* the heap's `st` field leaves "ok" and names what happened, the call is  *)
(* recorded as not having returned, and the run makes no further call.     *)
(***************************************************************************)
EXTENDS Integers, Sequences, FiniteSets, TLC

\* Keys offered to insert and remove are 1..MaxKey.
MaxKey == 8

\* A run makes at most MaxOps public calls.
MaxOps == 8

\* The trees built are BTree<int, 1> .. BTree<int, MaxDeg>.
MaxDeg == 2

\* A run that watches the caller's key variable makes at most MaxOwnOps calls.
MaxOwnOps == 7

\* A tree built for a run of removals holds the keys 1..n, n at most MaxBuilt.
MaxBuilt == 12

\* A run of removals from a built tree removes at most MaxRemoved keys.
MaxRemoved == 3

\* A run of monotone inserts makes at most MaxMono inserts.
MaxMono == 9

VARIABLES
    deg,       \* the template parameter MIN_DEG of the tree under test
    tree,      \* the heap: [mem, root_, st]
    present,   \* the keys inserted and not removed since (the abstract set)
    last,      \* the last public call and what it returned: [op, ret]
    nops,      \* the number of public calls made
    net,       \* inserts that returned true minus removes that returned true
    clone,     \* the heap of a tree copy-constructed from the tree, if any
    cret,      \* what the last call on the copy returned
    sus        \* the caller's key variable after the last call (Moved: empty)

vars == <<deg, tree, present, last, nops, net, clone, cret, sus>>

\* template <Key K, std::size_t MIN_DEG>
MIN_DEG == deg

\* A keys_ array of one key more.
MAX_KEYS_one_more == 2 * MIN_DEG + 1

\* std::array<K, 2 * MIN_DEG> keys_
MAX_KEYS_ == 2 * MIN_DEG

MAX_CHILDREN_ == MAX_KEYS_ + 1

\* nullptr
NULL == 0

\* A pointer to an object that no longer exists (a destroyed node, or a local
\* of a constructor that has returned).
DANGLING == -1

Keys == 1..MaxKey

KeySlots == 0..(MAX_KEYS_ - 1)

ChildSlots == 0..(MAX_CHILDREN_ - 1)

\* A default-constructed BTreeNode: keys_{} value-initialised, no children.
EmptyNode(parent) ==
    [keys_       |-> [i \in KeySlots |-> 0],
     n_keys_     |-> 0,
     children_   |-> [i \in ChildSlots |-> NULL],
     n_children_ |-> 0,
     parent_     |-> parent,
     index_      |-> 0]

\* is_leaf with >= written for ==: every node passes for a leaf.
is_leaf_always(n) == n.n_children_ >= 0

is_leaf(n) == n.n_children_ = 0

\* is_full compared against the capacity of children_ instead of keys_.
is_full_late(n) == n.n_keys_ = MAX_CHILDREN_

is_full(n) == n.n_keys_ = MAX_KEYS_

is_root(n) == n.parent_ = NULL

\* 0 if root, MIN_DEG otherwise
minimum_deg_(n) == IF is_root(n) THEN 0 ELSE MIN_DEG

\* The run stops with the heap as it is; st says why.
Crash(H, why) == [H EXCEPT !.st = why]

\* std::make_unique<BTreeNode>(parent): the new node's address.
NewAddr(H) == Len(H.mem) + 1

Alloc(H, parent) == [H EXCEPT !.mem = Append(@, EmptyNode(parent))]

(***************************************************************************)
(* inner_key_find_: binary search in keys_[0 .. n_keys_).                  *)
(***************************************************************************)
\* The search with left returned for right when the key is not there.
RECURSIVE BinSearch_returns_left(_, _, _, _)
BinSearch_returns_left(keys, key, left, right) ==
    IF left > right THEN <<FALSE, left>>
    ELSE LET mid == (left + right) \div 2 IN
         IF keys[mid] = key THEN <<TRUE, mid>>
         ELSE IF keys[mid] < key THEN BinSearch_returns_left(keys, key, mid + 1, right)
         ELSE BinSearch_returns_left(keys, key, left, mid - 1)

RECURSIVE BinSearch(_, _, _, _)
BinSearch(keys, key, left, right) ==
    IF left > right THEN <<FALSE, right>>
    ELSE LET mid == (left + right) \div 2 IN
         IF keys[mid] = key THEN <<TRUE, mid>>
         ELSE IF keys[mid] < key THEN BinSearch(keys, key, mid + 1, right)
         ELSE BinSearch(keys, key, left, mid - 1)

inner_key_find_(n, key) == BinSearch(n.keys_, key, 0, n.n_keys_ - 1)

(***************************************************************************)
(* find_: the descent of contains() and find().                            *)
(***************************************************************************)
\* A result of find_: what the descent ended in, the node and slot of a hit,
\* and the nodes the descent went through.
Absent == [res |-> "absent", node |-> NULL, slot |-> 0, path |-> <<>>]

\* The descent taking children_[second] for children_[second + 1].
descent_slot_same(second) == IF second < 0 THEN 0 ELSE second

\* children_[pair_result.second + 1]
descent_slot_(second) == second + 1

RECURSIVE find_(_, _, _)
find_(H, self, key) ==
    IF self = NULL THEN [res |-> "null", node |-> NULL, slot |-> 0, path |-> <<>>]
    ELSE LET n == H.mem[self]
             r == inner_key_find_(n, key) IN
         IF r[1] THEN [res |-> "found", node |-> self, slot |-> r[2], path |-> <<self>>]
         ELSE IF is_leaf(n) THEN [Absent EXCEPT !.path = <<self>>]
         ELSE [find_(H, n.children_[descent_slot_(r[2])], key) EXCEPT
                 !.path = <<self>> \o @]

(***************************************************************************)
(* set_parent_ and inner_insert_child_at_                                  *)
(***************************************************************************)
\* set_parent_ that forgets to store the index.
set_parent_no_index(n, parent, index) == [n EXCEPT !.parent_ = parent]

\* index_ = index; parent_ = parent (its two asserts are raised by the caller)
set_parent_(n, parent, index) == [n EXCEPT !.index_ = index, !.parent_ = parent]

\* The child stored and counted, its set_parent_ call left out.
inner_insert_child_at_no_set_parent(H, self, child, index) ==
    IF H.st # "ok" \/ self \notin DOMAIN H.mem THEN H
    ELSE [H EXCEPT !.mem[self].children_[index] = child,
                   !.mem[self].n_children_ = @ + 1]

inner_insert_child_at_(H, self, child, index) ==
    IF H.st # "ok" THEN H
    ELSE IF self = NULL THEN Crash(H, "null")
    ELSE IF self = DANGLING THEN Crash(H, "dangling")
    ELSE
    LET n == H.mem[self] IN
    IF ~(n.n_children_ < MAX_CHILDREN_) THEN Crash(H, "assert_children_full")
    ELSE IF child = NULL THEN Crash(H, "assert_child_null")
    ELSE IF ~(index < MAX_CHILDREN_) THEN Crash(H, "assert_child_index")
    ELSE IF \E i \in index..(n.n_children_ - 1) : n.children_[i] = NULL
         THEN Crash(H, "null")
    ELSE IF child = self THEN Crash(H, "assert_parent")
    ELSE
    LET hit  == IF index > n.n_children_ THEN index ELSE n.n_children_
        moved == {i \in ChildSlots : i >= index /\ i < n.n_children_}
        ch    == [i \in ChildSlots |->
                    IF i = index THEN child
                    ELSE IF (i - 1) \in moved THEN n.children_[i - 1]
                    ELSE IF i \in moved THEN NULL
                    ELSE n.children_[i]]
        slotOf(c) == CHOOSE i \in moved : n.children_[i] = c
        mem1  == [a \in DOMAIN H.mem |->
                    IF a = self
                    THEN [n EXCEPT !.children_ = ch, !.n_children_ = @ + 1]
                    ELSE IF a = child
                    THEN set_parent_(H.mem[a], self, index)
                    ELSE IF \E i \in moved : n.children_[i] = a
                    THEN [H.mem[a] EXCEPT !.index_ = slotOf(a) + 1]
                    ELSE H.mem[a]]
    IN  IF n.children_[hit] # NULL /\ n.children_[hit] # child
        THEN Crash(H, "destroy")
        ELSE [H EXCEPT !.mem = mem1]

(***************************************************************************)
(* inner_split_, inner_insert_key_at_ and inner_insert_ call one another.  *)
(***************************************************************************)
RECURSIVE inner_split_(_, _, _)
RECURSIVE inner_insert_key_at_(_, _, _, _)
RECURSIVE inner_insert_(_, _, _)

\* The tail both inserting routines share once the node has been split.
AfterSplit(r, self) ==
    LET H == r.h IN
    IF H.st # "ok" THEN H
    ELSE
    LET n == H.mem[self]
        p == n.parent_ IN
    IF p = NULL THEN Crash(H, "null")
    ELSE IF p = DANGLING THEN Crash(H, "dangling")
    ELSE IF n.index_ \notin KeySlots THEN Crash(H, "oob_keys")
    ELSE IF r.key > H.mem[p].keys_[n.index_]
    THEN IF (n.index_ + 1) \notin ChildSlots THEN Crash(H, "oob_children")
         ELSE IF H.mem[p].children_[n.index_ + 1] = NULL THEN Crash(H, "null")
         ELSE inner_insert_(H, H.mem[p].children_[n.index_ + 1], r.key)
    ELSE inner_insert_(H, self, r.key)

\* The shift and the store without ++n_keys_.
PlaceKey_no_count(H, self, key, index) ==
    LET n == H.mem[self] IN
    IF index \notin KeySlots \/ n.n_keys_ \notin KeySlots
    THEN Crash(H, "oob_keys")
    ELSE [H EXCEPT !.mem[self] =
            [n EXCEPT !.keys_ = [i \in KeySlots |->
                                   IF i = index THEN key
                                   ELSE IF i > index /\ i <= n.n_keys_
                                   THEN n.keys_[i - 1]
                                   ELSE n.keys_[i]]]]

\* keys_[index .. n_keys_) move one slot right and key lands at index.
PlaceKey(H, self, key, index) ==
    LET n == H.mem[self] IN
    IF index \notin KeySlots \/ n.n_keys_ \notin KeySlots
    THEN Crash(H, "oob_keys")
    ELSE [H EXCEPT !.mem[self] =
            [n EXCEPT !.keys_ = [i \in KeySlots |->
                                   IF i = index THEN key
                                   ELSE IF i > index /\ i <= n.n_keys_
                                   THEN n.keys_[i - 1]
                                   ELSE n.keys_[i]],
                      !.n_keys_ = @ + 1]]

\* The median handed to the parent without --this->n_keys_.
drop_median_forgotten(H, self) == H

\* --this->n_keys_; after the median has been moved out of keys_[median_idx]
drop_median_(H, self) == [H EXCEPT !.mem[self].n_keys_ = @ - 1]

\* The split of the root without the final assignment to root_.
set_root_forgotten(H, new_root) == H

\* curr_bt->root_ = std::move(new_root);
set_root_(H, new_root) == [H EXCEPT !.root_ = new_root]

inner_split_(H, self, new_key) ==
    IF H.st # "ok" THEN [h |-> H, key |-> new_key, median |-> 0, new_node |-> NULL]
    ELSE
    LET n == H.mem[self] IN
    IF ~is_full(n) THEN [h |-> Crash(H, "assert_full"), key |-> new_key, median |-> 0, new_node |-> NULL]
    ELSE
    LET m0         == (n.n_keys_ - 1) \div 2
        max_idx    == n.n_keys_ - 1
        up         == new_key > n.keys_[m0 + 1]
        swap       == ~up /\ new_key > n.keys_[m0]
        median_idx == IF up THEN m0 + 1 ELSE m0
        keys1      == IF swap THEN [n.keys_ EXCEPT ![m0] = new_key] ELSE n.keys_
        key1       == IF swap THEN n.keys_[m0] ELSE new_key
        cnt        == max_idx - median_idx
        new_node   == NewAddr(H)
        H0         == Alloc(H, n.parent_)
        newKeys    == [i \in KeySlots |->
                         IF i < cnt THEN keys1[median_idx + 1 + i] ELSE 0]
        \* the leaf branch: keys above the median move to new_node
        leafH      == [H0 EXCEPT
                         !.mem[new_node].keys_ = newKeys,
                         !.mem[new_node].n_keys_ = cnt,
                         !.mem[self].keys_ = keys1,
                         !.mem[self].n_keys_ = n.n_keys_ - cnt]
        \* the internal branch: children_[median_idx+1 .. max_idx+1] move too
        src        == (median_idx + 1)..(max_idx + 1)
        movedKids  == {n.children_[i] : i \in src}
        newKids    == [i \in ChildSlots |->
                         IF i <= cnt THEN n.children_[median_idx + 1 + i]
                         ELSE NULL]
        slotIn(c)  == CHOOSE i \in src : n.children_[i] = c
        innerMem   == [a \in DOMAIN H0.mem |->
                         IF a = self
                         THEN [n EXCEPT
                                 !.keys_ = keys1,
                                 !.n_keys_ = n.n_keys_ - cnt,
                                 !.children_ = [i \in ChildSlots |->
                                     IF i \in src THEN NULL ELSE n.children_[i]],
                                 !.n_children_ = n.n_children_ - (cnt + 1)]
                         ELSE IF a = new_node
                         THEN [H0.mem[a] EXCEPT
                                 !.keys_ = newKeys,
                                 !.n_keys_ = cnt,
                                 !.children_ = newKids,
                                 !.n_children_ = cnt + 1]
                         ELSE IF a \in movedKids
                         THEN [H0.mem[a] EXCEPT
                                 !.parent_ = new_node,
                                 !.index_ = slotIn(a) - (median_idx + 1)]
                         ELSE H0.mem[a]]
        innerH     == IF n.children_[median_idx + 1] = NULL
                      THEN Crash(H0, "assert_child_null")
                      ELSE IF NULL \in movedKids THEN Crash(H0, "null")
                      ELSE IF n.n_children_ < cnt + 1 THEN Crash(H0, "wrap")
                      ELSE [H0 EXCEPT !.mem = innerMem]
        H1         == IF is_leaf(n) THEN leafH ELSE innerH
        median     == keys1[median_idx]
    IN
    IF H1.st # "ok" THEN [h |-> H1, key |-> key1, median |-> median, new_node |-> new_node]
    ELSE IF n.parent_ # NULL
    THEN \* this is not root
         LET H2 == inner_insert_key_at_(H1, n.parent_, median, n.index_)
             H3 == IF H2.st # "ok" THEN H2
                   ELSE drop_median_(H2, self)
             H4 == IF H3.st # "ok" THEN H3
                   ELSE inner_insert_child_at_(H3, H3.mem[self].parent_,
                                               new_node, H3.mem[self].index_ + 1)
         IN  [h |-> H4, key |-> key1, median |-> median, new_node |-> new_node]
    ELSE \* this is root
         LET new_root == NewAddr(H1)
             Ha == Alloc(H1, NULL)
             Hb == inner_insert_key_at_(Ha, new_root, median, 0)
             Hc == IF Hb.st # "ok" THEN Hb
                   ELSE drop_median_(Hb, self)
             Hd == inner_insert_child_at_(Hc, new_root, Hc.root_, 0)
             He == inner_insert_child_at_(Hd, new_root, new_node, 1)
             Hf == IF He.st # "ok" THEN He ELSE set_root_(He, new_root)
         IN  [h |-> Hf, key |-> key1, median |-> median, new_node |-> new_node]

inner_insert_key_at_(H, self, key, index) ==
    IF H.st # "ok" THEN H
    ELSE IF self = NULL THEN Crash(H, "null")
    ELSE IF self = DANGLING THEN Crash(H, "dangling")
    ELSE
    LET n == H.mem[self] IN
    IF ~(IF is_full(n) THEN index <= MAX_KEYS_ ELSE index < MAX_KEYS_)
    THEN Crash(H, "assert_key_index")
    ELSE IF is_full(n) THEN AfterSplit(inner_split_(H, self, key), self)
    ELSE PlaceKey(H, self, key, index)

inner_insert_(H, self, key) ==
    IF H.st # "ok" THEN H
    ELSE IF self = NULL THEN Crash(H, "null")
    ELSE
    LET n == H.mem[self] IN
    IF is_full(n) THEN AfterSplit(inner_split_(H, self, key), self)
    ELSE PlaceKey(H, self, key, inner_key_find_(n, key)[2] + 1)

(***************************************************************************)
(* BTree::insert                                                           *)
(***************************************************************************)
RECURSIVE insert_descend(_, _, _)
insert_descend(H, curr_node, key) ==
    IF curr_node = NULL THEN [res |-> "null", node |-> NULL, slot |-> 0]
    ELSE LET n == H.mem[curr_node]
             pair_result == inner_key_find_(n, key) IN
         IF pair_result[1] THEN [res |-> "found", node |-> curr_node,
                                 slot |-> pair_result[2]]
         ELSE IF is_leaf(n) THEN [res |-> "leaf", node |-> curr_node,
                                  slot |-> pair_result[2] + 1]
         ELSE insert_descend(H, n.children_[pair_result[2] + 1], key)

insert(H, key) ==
    LET d == insert_descend(H, H.root_, key) IN
    IF d.res = "null" THEN [h |-> Crash(H, "null"), ret |-> FALSE]
    ELSE IF d.res = "found" THEN [h |-> H, ret |-> FALSE]
    ELSE [h |-> inner_insert_key_at_(H, d.node, key, d.slot), ret |-> TRUE]

(***************************************************************************)
(* The caller's variable.  For a key type that is not trivially copyable   *)
(* insert takes K&&.  The descent only reads the key (inner_key_find_      *)
(* takes it by reference) and returns false before anything is moved; on   *)
(* the other path inner_insert_key_at_ move-constructs its local           *)
(* insert_key from the argument, which leaves the caller's std::string     *)
(* empty.  insert_copy hands insert a copy of its own (pass_in).           *)
(***************************************************************************)
Moved == 0

insert_arg_always_moved(H, key) == Moved

insert_arg(H, key) ==
    IF insert_descend(H, H.root_, key).res = "found" THEN key ELSE Moved

insert_copy(H, key) ==
    LET pass_in == key IN insert(H, pass_in)

insert_copy_arg(H, key) ==
    LET pass_in == key
        moved_in == insert_arg(H, pass_in) IN
    key

(***************************************************************************)
(* Neighbours under the same parent (declared and defined in the class).   *)
(***************************************************************************)
has_left_(H, self) == ~is_root(H.mem[self]) /\ H.mem[self].index_ > 0

has_right_(H, self) ==
    /\ ~is_root(H.mem[self])
    /\ H.mem[self].index_ < H.mem[H.mem[self].parent_].n_children_ - 1

get_left_(H, self) == H.mem[H.mem[self].parent_].children_[H.mem[self].index_ - 1]

get_right_(H, self) == H.mem[H.mem[self].parent_].children_[H.mem[self].index_ + 1]

(***************************************************************************)
(* Removal.  The class declares leaf_remove_, leaf_inner_remove_at_,       *)
(* leaf_borrow_left_, leaf_borrow_right_ and leaf_merge_right_ and the     *)
(* tests call BTree::remove, but their bodies are not part of the source   *)
(* tree: the operators below follow sections 4.1, 4.3, 4.4, 4.5 and 4.6 of *)
(* the specification, with MIN_KEYS = MIN_DEG as minimum_deg_ has it.      *)
(***************************************************************************)
MIN_KEYS == MIN_DEG

\* Remove key at index: close the gap by a left shift, one key fewer.
leaf_inner_remove_at_(H, self, index) ==
    LET n == H.mem[self] IN
    IF index \notin KeySlots \/ ~(index < n.n_keys_) THEN Crash(H, "underflow")
    ELSE [H EXCEPT !.mem[self] =
            [n EXCEPT !.keys_ = [i \in KeySlots |->
                                   IF i >= index /\ i < n.n_keys_ - 1
                                   THEN n.keys_[i + 1] ELSE n.keys_[i]],
                      !.n_keys_ = @ - 1]]

\* Borrow-left: the separator comes down to slot 0, the left sibling's last
\* key becomes the separator; an internal node also takes its last child.
leaf_borrow_left_(H, self) ==
    LET n == H.mem[self]
        p == n.parent_
        L == get_left_(H, self)
        l == H.mem[L]
        sep == n.index_ - 1
        kid == l.children_[l.n_children_ - 1]
        H1 == [H EXCEPT
                 !.mem[self].keys_ = [i \in KeySlots |->
                     IF i = 0 THEN H.mem[p].keys_[sep]
                     ELSE IF i <= n.n_keys_ THEN n.keys_[i - 1] ELSE n.keys_[i]],
                 !.mem[self].n_keys_ = @ + 1,
                 !.mem[p].keys_[sep] = l.keys_[l.n_keys_ - 1],
                 !.mem[L].n_keys_ = @ - 1]
        H2 == [H1 EXCEPT !.mem[L].children_[l.n_children_ - 1] = NULL,
                         !.mem[L].n_children_ = @ - 1]
    IN  IF n.n_keys_ \notin KeySlots THEN Crash(H, "oob_keys")
        ELSE IF l.n_keys_ = 0 THEN Crash(H, "underflow")
        ELSE IF is_leaf(n) THEN H1
        ELSE IF is_leaf(l) THEN Crash(H, "oob_children")
        ELSE inner_insert_child_at_(H2, self, kid, 0)

\* A borrow-right that copies the sibling's first key up and leaves it there.
leaf_borrow_right_keeps_lender(H, self) ==
    LET n == H.mem[self]
        p == n.parent_
        s == H.mem[get_right_(H, self)]
    IN  IF n.n_keys_ \notin KeySlots THEN Crash(H, "oob_keys")
        ELSE [H EXCEPT !.mem[self].keys_[n.n_keys_] = H.mem[p].keys_[n.index_],
                       !.mem[self].n_keys_ = @ + 1,
                       !.mem[p].keys_[n.index_] = s.keys_[0]]

\* Borrow-right: the separator is appended, the right sibling's first key
\* becomes the separator; an internal node also takes its first child.
leaf_borrow_right_(H, self) ==
    LET n == H.mem[self]
        p == n.parent_
        S == get_right_(H, self)
        s == H.mem[S]
        sep == n.index_
        kid == s.children_[0]
        rest == {s.children_[i] : i \in 1..(s.n_children_ - 1)}
        slotOf(c) == CHOOSE i \in 1..(s.n_children_ - 1) : s.children_[i] = c
        H1 == [H EXCEPT
                 !.mem[self].keys_[n.n_keys_] = H.mem[p].keys_[sep],
                 !.mem[self].n_keys_ = @ + 1,
                 !.mem[p].keys_[sep] = s.keys_[0],
                 !.mem[S].keys_ = [i \in KeySlots |->
                     IF i < s.n_keys_ - 1 THEN s.keys_[i + 1] ELSE s.keys_[i]],
                 !.mem[S].n_keys_ = @ - 1]
        H2 == [H1 EXCEPT !.mem = [a \in DOMAIN H1.mem |->
                 IF a = S
                 THEN [H1.mem[a] EXCEPT
                         !.children_ = [i \in ChildSlots |->
                             IF i < s.n_children_ - 1 THEN s.children_[i + 1]
                             ELSE IF i = s.n_children_ - 1 THEN NULL
                             ELSE s.children_[i]],
                         !.n_children_ = @ - 1]
                 ELSE IF a \in (rest \ {NULL})
                 THEN [H1.mem[a] EXCEPT !.index_ = slotOf(a) - 1]
                 ELSE H1.mem[a]]]
    IN  IF n.n_keys_ \notin KeySlots THEN Crash(H, "oob_keys")
        ELSE IF s.n_keys_ = 0 THEN Crash(H, "underflow")
        ELSE IF is_leaf(n) THEN H1
        ELSE IF is_leaf(s) THEN Crash(H, "oob_children")
        ELSE inner_insert_child_at_(H2, self, kid, n.n_children_)

RECURSIVE leaf_merge_right_(_, _)
RECURSIVE rebalance_(_, _)

\* A rebalance that merges without trying to borrow.
rebalance_choice_never_borrows(H, self) ==
    LET n == H.mem[self] IN
    IF is_root(n) \/ n.n_keys_ >= MIN_KEYS THEN "none"
    ELSE IF has_left_(H, self) /\ get_left_(H, self) = NULL THEN "null"
    ELSE IF has_right_(H, self) /\ get_right_(H, self) = NULL THEN "null"
    ELSE IF has_right_(H, self) THEN "merge_right"
    ELSE IF has_left_(H, self) THEN "merge_left"
    ELSE "assert_has_left"

\* What rebalance_ does at a node: nothing for the root or a node that still
\* has MIN_KEYS keys; else borrow-left, else borrow-right, else merge with
\* the right sibling if there is one, else with the left sibling.
rebalance_choice_(H, self) ==
    LET n == H.mem[self] IN
    IF is_root(n) \/ n.n_keys_ >= MIN_KEYS THEN "none"
    ELSE IF has_left_(H, self) /\ get_left_(H, self) = NULL THEN "null"
    ELSE IF has_right_(H, self) /\ get_right_(H, self) = NULL THEN "null"
    ELSE IF has_left_(H, self) /\ H.mem[get_left_(H, self)].n_keys_ > MIN_KEYS
    THEN "borrow_left"
    ELSE IF has_right_(H, self) /\ H.mem[get_right_(H, self)].n_keys_ > MIN_KEYS
    THEN "borrow_right"
    ELSE IF has_right_(H, self) THEN "merge_right"
    ELSE IF has_left_(H, self) THEN "merge_left"
    ELSE "assert_has_left"

\* Rebalance on underflow.
rebalance_(H, self) ==
    IF H.st # "ok" THEN H
    ELSE
    LET c == rebalance_choice_(H, self) IN
    IF c = "none" THEN H
    ELSE IF c = "borrow_left" THEN leaf_borrow_left_(H, self)
    ELSE IF c = "borrow_right" THEN leaf_borrow_right_(H, self)
    ELSE IF c = "merge_right" THEN leaf_merge_right_(H, self)
    ELSE IF c = "merge_left" THEN leaf_merge_right_(H, get_left_(H, self))
    ELSE Crash(H, c)

\* The emptied root left in place.
root_emptied_kept(H, self) == H

\* The parent was the root and has no key left: the merged node is the root.
root_emptied_(H, self) ==
    [H EXCEPT !.root_ = self,
              !.mem[self].parent_ = NULL,
              !.mem[self].index_ = 0]

\* One merge-right: separator and right sibling S are appended to this node,
\* the parent loses the separator and S; an emptied root is replaced, any other
\* parent is to be rebalanced (again).
merge_step_(H, self) ==
    LET n == H.mem[self]
        p == n.parent_
        P == H.mem[p]
        S == get_right_(H, self)
        s == H.mem[S]
        sep == n.index_
        base == n.n_keys_ + 1
        kids == {s.children_[i] : i \in 0..(s.n_children_ - 1)}
        slotOf(c) == CHOOSE i \in 0..(s.n_children_ - 1) : s.children_[i] = c
        right == {P.children_[i] : i \in (sep + 2)..(P.n_children_ - 1)}
        pSlot(c) == CHOOSE i \in (sep + 2)..(P.n_children_ - 1) : P.children_[i] = c
        merged == [n EXCEPT
                     !.keys_ = [i \in KeySlots |->
                         IF i = n.n_keys_ THEN P.keys_[sep]
                         ELSE IF i >= base /\ i < base + s.n_keys_
                         THEN s.keys_[i - base]
                         ELSE n.keys_[i]],
                     !.n_keys_ = base + s.n_keys_,
                     !.children_ = [i \in ChildSlots |->
                         IF i >= n.n_children_ /\ i < n.n_children_ + s.n_children_
                         THEN s.children_[i - n.n_children_]
                         ELSE n.children_[i]],
                     !.n_children_ = n.n_children_ + s.n_children_]
        parent1 == [P EXCEPT
                     !.keys_ = [i \in KeySlots |->
                         IF i >= sep /\ i < P.n_keys_ - 1 THEN P.keys_[i + 1]
                         ELSE P.keys_[i]],
                     !.n_keys_ = @ - 1,
                     !.children_ = [i \in ChildSlots |->
                         IF i >= sep + 1 /\ i < P.n_children_ - 1
                         THEN P.children_[i + 1]
                         ELSE IF i = P.n_children_ - 1 THEN NULL
                         ELSE P.children_[i]],
                     !.n_children_ = @ - 1]
        H1 == [H EXCEPT !.mem = [a \in DOMAIN H.mem |->
                 IF a = self THEN merged
                 ELSE IF a = p THEN parent1
                 ELSE IF a \in (kids \ {NULL})
                 THEN [H.mem[a] EXCEPT !.parent_ = self,
                                       !.index_ = n.n_children_ + slotOf(a)]
                 ELSE IF a \in (right \ {NULL})
                 THEN [H.mem[a] EXCEPT !.index_ = pSlot(a) - 1]
                 ELSE H.mem[a]]]
        H2 == root_emptied_(H1, self)
        stop(h) == [h |-> h, again |-> FALSE]
    IN  IF S = NULL THEN stop(Crash(H, "null"))
        ELSE IF sep \notin KeySlots THEN stop(Crash(H, "oob_keys"))
        ELSE IF ~(sep < P.n_keys_) THEN stop(Crash(H, "underflow"))
        ELSE IF base + s.n_keys_ > MAX_KEYS_ THEN stop(Crash(H, "oob_keys"))
        ELSE IF n.n_children_ + s.n_children_ > MAX_CHILDREN_
        THEN stop(Crash(H, "oob_children"))
        ELSE IF NULL \in kids \/ NULL \in right THEN stop(Crash(H, "null"))
        ELSE IF is_root(P) /\ parent1.n_keys_ = 0 THEN stop(H2)
        ELSE [h |-> H1, again |-> TRUE]

\* Merge-right, and the rebalance of the parent that follows it.
leaf_merge_right_(H, self) ==
    IF H.st # "ok" THEN H
    ELSE LET m == merge_step_(H, self) IN
         IF m.again THEN rebalance_(m.h, H.mem[self].parent_) ELSE m.h

\* Leaf remove at a found index.
leaf_remove_(H, self, index) ==
    rebalance_(leaf_inner_remove_at_(H, self, index), self)

\* The leftmost leaf below a node.
RECURSIVE leftmost_leaf_(_, _)
leftmost_leaf_(H, a) ==
    IF a = NULL THEN NULL
    ELSE IF is_leaf(H.mem[a]) THEN a
    ELSE leftmost_leaf_(H, H.mem[a].children_[0])

\* The in-order successor of keys_[index] takes its place and leaves the
\* leftmost leaf below children_[index + 1].
successor_taken_(H, self, index) ==
    LET leaf == leftmost_leaf_(H, H.mem[self].children_[index + 1]) IN
    IF leaf = NULL THEN [h |-> Crash(H, "null"), leaf |-> NULL]
    ELSE IF H.mem[leaf].n_keys_ = 0 THEN [h |-> Crash(H, "underflow"), leaf |-> NULL]
    ELSE LET succ == H.mem[leaf].keys_[0]
             H1 == [H EXCEPT !.mem[self].keys_[index] = succ]
         IN  [h |-> leaf_inner_remove_at_(H1, leaf, 0), leaf |-> leaf]

\* Internal remove at index: the successor replaces the key, the leaf it came
\* from is rebalanced.
inner_remove_at_(H, self, index) ==
    LET s == successor_taken_(H, self, index) IN rebalance_(s.h, s.leaf)

\* BTree::remove
remove(H, key) ==
    LET r == find_(H, H.root_, key) IN
    IF r.res = "null" THEN [h |-> Crash(H, "null"), ret |-> FALSE]
    ELSE IF r.res = "absent" THEN [h |-> H, ret |-> FALSE]
    ELSE IF is_leaf(H.mem[r.node])
    THEN [h |-> leaf_remove_(H, r.node, r.slot), ret |-> TRUE]
    ELSE [h |-> inner_remove_at_(H, r.node, r.slot), ret |-> TRUE]

(***************************************************************************)
(* BTree::contains and BTree::find                                         *)
(***************************************************************************)
find(H, key) == find_(H, H.root_, key)

\* "true", "false", or "null" when the descent follows an empty child slot.
contains(H, key) ==
    LET r == find(H, key) IN
    IF r.res = "found" THEN "true" ELSE IF r.res = "absent" THEN "false" ELSE r.res

(***************************************************************************)
(* Addresses are not observable: after each public call the heap is        *)
(* renumbered in preorder from the root and unowned nodes are dropped.     *)
(***************************************************************************)
RECURSIVE Preorder(_, _)
RECURSIVE PreorderKids(_, _, _)
Preorder(mem, a) == <<a>> \o PreorderKids(mem, a, 0)

PreorderKids(mem, a, i) ==
    IF i > MAX_CHILDREN_ - 1 THEN <<>>
    ELSE (IF mem[a].children_[i] = NULL THEN <<>>
          ELSE Preorder(mem, mem[a].children_[i]))
         \o PreorderKids(mem, a, i + 1)

Canon(H) ==
    LET order == Preorder(H.mem, H.root_)
        pos(a) == IF a = NULL THEN NULL
                  ELSE IF \E i \in 1..Len(order) : order[i] = a
                  THEN CHOOSE i \in 1..Len(order) : order[i] = a
                  ELSE DANGLING
    IN  [mem   |-> [i \in 1..Len(order) |->
                      LET n == H.mem[order[i]] IN
                      [n EXCEPT !.children_ = [s \in ChildSlots |-> pos(n.children_[s])],
                                !.parent_ = pos(n.parent_)]],
         root_ |-> 1,
         st    |-> H.st]

(***************************************************************************)
(* The public calls on one BTree object.                                   *)
(***************************************************************************)
\* No copy has been made.
NoClone == [mem |-> <<>>, root_ |-> NULL, st |-> "none"]

\* BTree(): root_{new BTreeNode}
Init ==
    /\ deg \in 1..MaxDeg
    /\ tree = [mem |-> <<EmptyNode(NULL)>>, root_ |-> 1, st |-> "ok"]
    /\ present = {}
    /\ last = [op |-> "new", ret |-> "none"]
    /\ nops = 0
    /\ net = 0
    /\ clone = NoClone
    /\ cret = "none"
    /\ sus = Moved

\* What the caller sees of a call that leaves heap h: its bool, or nothing at
\* all when the call did not return.
Returned(r) == IF r.h.st # "ok" THEN "none" ELSE IF r.ret THEN "true" ELSE "false"

\* The caller's view of a finished call r: what it returned, the change d it
\* made to the number of keys, and the tree it left.
Called(name, r, d) ==
    /\ last' = [op |-> name, ret |-> Returned(r)]
    /\ net' = IF Returned(r) = "true" THEN net + d ELSE net
    /\ tree' = Canon(r.h)

Insert(k) ==
    /\ tree.st = "ok"
    /\ clone = NoClone
    /\ nops < MaxOps
    /\ nops' = nops + 1
    /\ deg' = deg
    /\ present' = present \cup {k}
    /\ Called("insert", insert(tree, k), 1)
    /\ UNCHANGED <<clone, cret, sus>>

Remove(k) ==
    /\ tree.st = "ok"
    /\ nops < MaxOps
    /\ nops' = nops + 1
    /\ deg' = deg
    /\ present' = present \ {k}
    /\ Called("remove", remove(tree, k), -1)
    /\ UNCHANGED <<clone, cret, sus>>

Next ==
    \/ \E k \in Keys : Insert(k)
    \/ \E k \in Keys : Remove(k)

\* Runs that only insert.
NextIns == \E k \in Keys : Insert(k)

Spec == Init /\ [][Next]_vars

SpecIns == Init /\ [][NextIns]_vars

(***************************************************************************)
(* BTree(const BTree&) and BTreeNode(const BTreeNode&).                    *)
(*                                                                         *)
(* The node constructor copies n_keys_ and n_children_, the keys below     *)
(* n_keys_ and, unless cpy is a leaf, the children in the slots below      *)
(* n_keys_ and in slot n_children_ - 1.  Each child is first copied into a *)
(* local (cpy_child), its parent_ is set to `this`, and the local is moved *)
(* into a new heap node.  `this` is itself such a local one level up (or   *)
(* copy_root in the BTree constructor), so once the constructors have      *)
(* returned the parent_ of every node but the root points to a local that  *)
(* no longer exists.  index_ is not copied: it keeps its initialiser 0.    *)
(* The copy has the shape of the original, so it is built here slot for    *)
(* slot on the same addresses in a heap of its own.                        *)
(***************************************************************************)
CopiedSlots(n) ==
    IF is_leaf(n) THEN {}
    ELSE {i \in ChildSlots : i < n.n_keys_ \/ i = n.n_children_ - 1}

BTreeNode_copy(H, a) ==
    LET cpy == H.mem[a] IN
    [keys_       |-> [i \in KeySlots |-> IF i < cpy.n_keys_ THEN cpy.keys_[i] ELSE 0],
     n_keys_     |-> cpy.n_keys_,
     children_   |-> [i \in ChildSlots |->
                        IF i \in CopiedSlots(cpy) THEN cpy.children_[i] ELSE NULL],
     n_children_ |-> cpy.n_children_,
     parent_     |-> IF a = H.root_ THEN NULL ELSE DANGLING,
     index_      |-> 0]

RECURSIVE CopiedNodes(_, _)
CopiedNodes(H, a) ==
    IF a = 0 THEN <<>>
    ELSE Append(CopiedNodes(H, a - 1), BTreeNode_copy(H, a))

BTree_copy(H) ==
    IF \E a \in DOMAIN H.mem :
          \E i \in CopiedSlots(H.mem[a]) : H.mem[a].children_[i] = NULL
    THEN Crash(H, "null")
    ELSE Canon([mem   |-> CopiedNodes(H, Len(H.mem)),
                root_ |-> H.root_,
                st    |-> "ok"])

\* auto copy{tree};
Copy ==
    /\ tree.st = "ok"
    /\ clone = NoClone
    /\ nops < MaxOps
    /\ nops' = nops + 1
    /\ clone' = BTree_copy(tree)
    /\ cret' = "none"
    /\ UNCHANGED <<deg, tree, present, last, net, sus>>

\* The same insert, made on the tree and on its copy.
CalledOnCopy(c) ==
    /\ cret' = Returned(c)
    /\ clone' = Canon(c.h)

InsertBoth(k) ==
    /\ tree.st = "ok"
    /\ clone.st = "ok"
    /\ nops < MaxOps
    /\ nops' = nops + 1
    /\ present' = present \cup {k}
    /\ Called("insert", insert(tree, k), 1)
    /\ CalledOnCopy(insert(clone, k))
    /\ UNCHANGED <<deg, sus>>

\* tree.insert(std::move(sus)) with sus holding k.
InsertMove(k) ==
    /\ tree.st = "ok"
    /\ nops < MaxOwnOps
    /\ nops' = nops + 1
    /\ deg' = deg
    /\ present' = present \cup {k}
    /\ sus' = insert_arg(tree, k)
    /\ Called("insert", insert(tree, k), 1)
    /\ UNCHANGED <<clone, cret>>

\* tree.insert_copy(sus) with sus holding k.
InsertCopy(k) ==
    /\ tree.st = "ok"
    /\ nops < MaxOwnOps
    /\ nops' = nops + 1
    /\ deg' = deg
    /\ present' = present \cup {k}
    /\ sus' = insert_copy_arg(tree, k)
    /\ Called("insert_copy", insert_copy(tree, k), 1)
    /\ UNCHANGED <<clone, cret>>

NextOwn ==
    \/ \E k \in Keys : InsertMove(k)
    \/ \E k \in Keys : InsertCopy(k)

SpecOwn == Init /\ [][NextOwn]_vars

NextCopy ==
    \/ \E k \in Keys : Insert(k)
    \/ Copy
    \/ \E k \in Keys : InsertBoth(k)

SpecCopy == Init /\ [][NextCopy]_vars

(***************************************************************************)
(* Views of the tree used by the properties.                               *)
(***************************************************************************)
Nodes == DOMAIN tree.mem

NodeKeys(n) == {n.keys_[i] : i \in 0..(n.n_keys_ - 1)}

\* Every key stored in some node owned by the root.
StoredKeys(H) == UNION {NodeKeys(H.mem[a]) : a \in DOMAIN H.mem}

Kids(n) == {n.children_[i] : i \in 0..(n.n_children_ - 1)} \ {NULL}

RECURSIVE SubtreeKeys(_, _)
SubtreeKeys(H, a) ==
    NodeKeys(H.mem[a]) \cup UNION {SubtreeKeys(H, c) : c \in Kids(H.mem[a])}

RECURSIVE LeafDepths(_, _, _)
LeafDepths(H, a, d) ==
    IF Kids(H.mem[a]) = {} THEN {d}
    ELSE UNION {LeafDepths(H, c, d + 1) : c \in Kids(H.mem[a])}

Returns == tree.st = "ok"

\* The keys in the order of an in-order traversal from node a.
RECURSIVE InOrder(_, _)
RECURSIVE InOrderFrom(_, _, _)
InOrder(H, a) == InOrderFrom(H, a, 0)

InOrderFrom(H, a, i) ==
    LET n == H.mem[a] IN
    IF i >= n.n_keys_ /\ i >= n.n_children_ THEN <<>>
    ELSE (IF i < n.n_children_ /\ n.children_[i] # NULL
          THEN InOrder(H, n.children_[i]) ELSE <<>>)
         \o (IF i < n.n_keys_ THEN <<n.keys_[i]>> ELSE <<>>)
         \o InOrderFrom(H, a, i + 1)

\* The number of keys stored over all nodes, each counted as often as stored.
RECURSIVE KeyCount(_, _)
KeyCount(H, a) ==
    IF a > Len(H.mem) THEN 0 ELSE H.mem[a].n_keys_ + KeyCount(H, a + 1)

(***************************************************************************)
(* C1: after any sequence of insert calls with distinct keys (as many      *)
(* calls as keys inserted), every key inserted so far is reported present  *)
(* by contains: the call returns, and returns true.                        *)
(***************************************************************************)
C1_InsertedKeysContained ==
    (Returns /\ nops = Cardinality(present)) =>
        \A k \in present : contains(tree, k) = "true"

(***************************************************************************)
(* C2: the tree is a set: contains(k) is true exactly for the keys         *)
(* inserted and not since removed, find(k) reports "absent" for every      *)
(* other key, and a new tree contains nothing.                             *)
(***************************************************************************)
C2_SetSemantics ==
    Returns =>
        \A k \in Keys :
            /\ contains(tree, k) = (IF k \in present THEN "true" ELSE "false")
            /\ k \notin present => find(tree, k).res = "absent"

(***************************************************************************)
(* C3: insert(k) returns false exactly when k is already stored, and then  *)
(* the tree is left as it was.                                             *)
(***************************************************************************)
C3_DuplicateInsert ==
    [][\A k \in Keys : Insert(k) =>
          /\ last'.ret \in {"true", "false"}
          /\ (last'.ret = "false") <=> (k \in StoredKeys(tree))
          /\ (last'.ret = "false") => (tree' = tree)]_vars

(***************************************************************************)
(* C4: remove(k) of a stored key returns true; afterwards contains(k) is   *)
(* false, find(k) is absent, and every other key that was stored is still  *)
(* contained.                                                              *)
(***************************************************************************)
C4_RemovePresent ==
    [][\A k \in present : Remove(k) =>
          /\ last'.ret = "true"
          /\ contains(tree', k) = "false"
          /\ find(tree', k).res = "absent"
          /\ \A j \in present \ {k} : contains(tree', j) = "true"]_vars

(***************************************************************************)
(* C5: remove(k) of a key that is not stored (never inserted, or already   *)
(* removed) returns false and leaves the tree as it was.                   *)
(***************************************************************************)
C5_RemoveAbsent ==
    [][\A k \in Keys \ present : Remove(k) =>
          /\ last'.ret = "false"
          /\ tree' = tree]_vars

(***************************************************************************)
(* C6: search-tree order: the keys of a node are strictly increasing,      *)
(* every key under child i is smaller than key i, and every key under      *)
(* child i+1 is greater than key i.                                        *)
(***************************************************************************)
C6_SearchOrder ==
    Returns =>
        \A a \in Nodes :
            LET n == tree.mem[a] IN
            /\ \A i, j \in 0..(n.n_keys_ - 1) : i < j => n.keys_[i] < n.keys_[j]
            /\ \A i \in 0..(n.n_keys_ - 1) :
                  /\ (i < n.n_children_ /\ n.children_[i] # NULL) =>
                        \A k \in SubtreeKeys(tree, n.children_[i]) : k < n.keys_[i]
                  /\ (i + 1 < n.n_children_ /\ n.children_[i + 1] # NULL) =>
                        \A k \in SubtreeKeys(tree, n.children_[i + 1]) : k > n.keys_[i]

(***************************************************************************)
(* C7: a leaf has no children, an internal node has exactly n_keys + 1,    *)
(* and every child slot below n_children holds a node.                     *)
(***************************************************************************)
C7_ChildCount ==
    Returns =>
        \A a \in Nodes :
            LET n == tree.mem[a] IN
            /\ n.n_children_ = 0 \/ n.n_children_ = n.n_keys_ + 1
            /\ \A i \in 0..(n.n_children_ - 1) : n.children_[i] # NULL

(***************************************************************************)
(* C8: no node ever holds more than MAX_KEYS = 2t keys: no key is written  *)
(* at an index >= 2t, a split only runs on a node with exactly 2t keys,    *)
(* and every node of the tree an operation leaves has n_keys <= 2t.        *)
(***************************************************************************)
C8_MaxKeys ==
    /\ tree.st \notin {"oob_keys", "assert_full", "assert_key_index"}
    /\ \A a \in Nodes : tree.mem[a].n_keys_ <= MAX_KEYS_

\* An insert has just stored its key in a tree that has been split before,
\* and some node holds exactly MAX_KEYS keys.
C8_SplitHappened ==
    /\ Returns
    /\ last.op = "insert"
    /\ last.ret = "true"
    /\ Cardinality(Nodes) >= 3
    /\ \E a \in Nodes : tree.mem[a].n_keys_ = MAX_KEYS_

(***************************************************************************)
(* C9: every node other than the root holds at least t keys, and a root    *)
(* that has children holds at least one.                                   *)
(***************************************************************************)
C9_MinKeys ==
    Returns =>
        \A a \in Nodes :
            LET n == tree.mem[a] IN
            /\ n.n_keys_ >= minimum_deg_(n)
            /\ (is_root(n) /\ ~is_leaf(n)) => n.n_keys_ >= 1

(***************************************************************************)
(* C10: all leaves are at the same depth.                                  *)
(***************************************************************************)
C10_LeafDepth ==
    Returns => Cardinality(LeafDepths(tree, tree.root_, 0)) = 1

\* A tree of three levels whose leaves are all two steps below the root.
C10_Deep ==
    /\ Returns
    /\ LeafDepths(tree, tree.root_, 0) = {2}

(***************************************************************************)
(* C11: the back-links are consistent: every child held in slot i of a     *)
(* node N (i < N.n_children) has parent_ = N and index_ = i.               *)
(***************************************************************************)
C11_BackLinks ==
    Returns =>
        \A a \in Nodes :
            LET n == tree.mem[a] IN
            \A i \in 0..(n.n_children_ - 1) :
                n.children_[i] # NULL =>
                    /\ tree.mem[n.children_[i]].parent_ = a
                    /\ tree.mem[n.children_[i]].index_ = i

\* An insert has just returned a tree of three levels: an internal node was
\* split under a new root, its upper children moved to the new node, and the
\* new node was inserted as a child next to it.
C11_InternalSplit ==
    /\ Returns
    /\ last.op = "insert"
    /\ \E a \in Kids(tree.mem[tree.root_]) :
          /\ tree.mem[a].index_ = 1
          /\ Kids(tree.mem[a]) # {}

(***************************************************************************)
(* C12: the number of keys stored over all nodes equals the number of      *)
(* inserts that returned true minus the number of removes that returned    *)
(* true.                                                                   *)
(***************************************************************************)
C12_KeyCount ==
    Returns => KeyCount(tree, 1) = net

\* Keys have gone through a split and a successful remove, and at least
\* three of them are left in a tree of several nodes.
C12_AfterSplitAndRemove ==
    /\ Returns
    /\ last = [op |-> "remove", ret |-> "true"]
    /\ Cardinality(Nodes) >= 3
    /\ net >= 3

(***************************************************************************)
(* C13: a copy holds exactly the keys of the tree it was made from, and    *)
(* every later insert made on the copy returns what the same insert        *)
(* returns on the original and leaves the same keys, inserts that split    *)
(* nodes of the copy included.                                             *)
(***************************************************************************)
C13_CopyBehavesAlike ==
    (Returns /\ clone # NoClone) =>
        /\ clone.st = "ok"
        /\ cret \in {"none", last.ret}
        /\ \A k \in Keys : contains(clone, k) = contains(tree, k)

(***************************************************************************)
(* C14: in a copy every node but the root has its parent field on the node *)
(* of the copy that owns it and its index field equal to the slot it       *)
(* occupies, at every depth.                                               *)
(***************************************************************************)
C14_CopyBackLinks ==
    clone.st = "ok" =>
        \A a \in DOMAIN clone.mem :
            LET n == clone.mem[a] IN
            \A i \in 0..(n.n_children_ - 1) :
                n.children_[i] # NULL =>
                    /\ clone.mem[n.children_[i]].parent_ = a
                    /\ clone.mem[n.children_[i]].index_ = i

(***************************************************************************)
(* C15: for a key type that is not trivially copyable the consuming insert *)
(* takes the caller's key exactly when it installs it: after a call that   *)
(* returned true the caller's variable is moved-from (empty), after a call *)
(* that returned false it still holds the key; insert_copy never changes   *)
(* the caller's variable.                                                  *)
(***************************************************************************)
C15_KeyOwnership ==
    [][/\ \A k \in Keys : InsertMove(k) =>
              /\ last'.ret = "true"  => sus' = Moved
              /\ last'.ret = "false" => sus' = k
       /\ \A k \in Keys : InsertCopy(k) => sus' = k]_vars

C15_DuplicateKept ==
    /\ last.op = "insert"
    /\ last.ret = "false"
    /\ sus # Moved
    /\ contains(tree, sus) = "true"
    /\ Cardinality(Nodes) > 1

(***************************************************************************)
(* C16: on any reachable tree and for any key k not in it, insert(k)        *)
(* followed by remove(k) returns true both times and leaves the key set    *)
(* and the in-order sequence of keys as they were.                         *)
(***************************************************************************)
\* remove(k) on the tree the insert r left, if that insert returned.
ThenRemove(r, k) == IF r.h.st = "ok" THEN remove(Canon(r.h), k) ELSE r

BothTrueAndSame(H, r, q) ==
    /\ Returned(r) = "true"
    /\ Returned(q) = "true"
    /\ StoredKeys(Canon(q.h)) = StoredKeys(H)
    /\ InOrder(Canon(q.h), 1) = InOrder(H, H.root_)

RoundTrip(H, k, r) == BothTrueAndSame(H, r, ThenRemove(r, k))

C16_InsertThenRemove ==
    Returns =>
        \A k \in Keys \ StoredKeys(tree) : RoundTrip(tree, k, insert(tree, k))

(***************************************************************************)
(* C17: a tree has exactly one root.  A new tree's root is a leaf with no  *)
(* keys and no children; after every public call the root pointer is not   *)
(* null, the root has no parent and index 0, and no other node is without  *)
(* a parent, a root made by a split included.                              *)
(***************************************************************************)
C17_OneRoot ==
    Returns =>
        /\ tree.root_ # NULL
        /\ tree.mem[tree.root_].parent_ = NULL
        /\ tree.mem[tree.root_].index_ = 0
        /\ \A a \in Nodes \ {tree.root_} : tree.mem[a].parent_ # NULL
        /\ nops = 0 => /\ is_leaf(tree.mem[tree.root_])
                       /\ tree.mem[tree.root_].n_keys_ = 0
                       /\ Nodes = {tree.root_}

C17_RootFromSplit ==
    /\ Returns
    /\ last.op = "insert"
    /\ tree.mem[tree.root_].n_keys_ = 1
    /\ tree.mem[tree.root_].n_children_ = 2
    /\ \A c \in Kids(tree.mem[tree.root_]) : ~is_leaf(tree.mem[c])

(***************************************************************************)
(* C18: when an insert splits a node that is not the root, then once the   *)
(* split has returned (the parent may have split in between) the key at    *)
(* position index_ of the node's parent is the median the split promoted   *)
(* and the child at index_ + 1 is the new right node, so that comparing    *)
(* the pending key with that key picks the right half.  Stated for the     *)
(* leaf the insert reaches.                                                *)
(***************************************************************************)
MedianBesideNode(H, leaf, r) ==
    r.h.st = "ok" =>
        LET n == r.h.mem[leaf] IN
        /\ n.parent_ # NULL
        /\ n.index_ \in KeySlots
        /\ r.h.mem[n.parent_].keys_[n.index_] = r.median
        /\ r.h.mem[n.parent_].children_[n.index_ + 1] = r.new_node

SplitOfReachedLeaf(H, k, d) ==
    (d.res = "leaf" /\ is_full(H.mem[d.node]) /\ ~is_root(H.mem[d.node])) =>
        MedianBesideNode(H, d.node, inner_split_(H, d.node, k))

C18_MedianBesideNode ==
    Returns =>
        \A k \in Keys : SplitOfReachedLeaf(tree, k, insert_descend(tree, tree.root_, k))

(***************************************************************************)
(* C19: the split of the source (split first, pick or swap the median by   *)
(* where the pending key falls, then insert the pending key into the left  *)
(* or right half) yields the same tree as inserting first and splitting    *)
(* afterwards: of the 2t + 1 sorted keys the one at index t goes up, the t *)
(* smaller keys and their children stay, the t larger ones move to the new *)
(* right node, for leaves and internal nodes alike.                        *)
(*                                                                         *)
(* Trees are compared as values: a node is its key sequence and the        *)
(* sequence of its children.  RefInsert is the insert-then-split procedure *)
(* the claim names, on such values.                                        *)
(***************************************************************************)
NullTree == [keys |-> <<-1>>, kids |-> <<>>]

RECURSIVE Abs(_, _)
Abs(H, a) ==
    IF a = NULL THEN NullTree
    ELSE LET n == H.mem[a] IN
         [keys |-> [i \in 1..n.n_keys_ |-> n.keys_[i - 1]],
          kids |-> [i \in 1..n.n_children_ |-> Abs(H, n.children_[i - 1])]]

\* Every node has no children or one more than keys, none of them null, and
\* the keys are in order.
WellFormed(H) ==
    /\ \A a \in DOMAIN H.mem :
          /\ H.mem[a].n_children_ \in {0, H.mem[a].n_keys_ + 1}
          /\ \A i \in 0..(H.mem[a].n_children_ - 1) : H.mem[a].children_[i] # NULL
    /\ \A i, j \in 1..Len(InOrder(H, H.root_)) :
          i < j => InOrder(H, H.root_)[i] < InOrder(H, H.root_)[j]

Smaller(keys, k) == Cardinality({i \in 1..Len(keys) : keys[i] < k})

InsAt(seq, i, x) == SubSeq(seq, 1, i - 1) \o <<x>> \o SubSeq(seq, i, Len(seq))

RefSplit(keys, kids) ==
    IF Len(keys) <= MAX_KEYS_
    THEN [split |-> FALSE, node |-> [keys |-> keys, kids |-> kids]]
    ELSE [split  |-> TRUE,
          left   |-> [keys |-> SubSeq(keys, 1, MIN_DEG),
                      kids |-> IF Len(kids) = 0 THEN <<>>
                               ELSE SubSeq(kids, 1, MIN_DEG + 1)],
          median |-> keys[MIN_DEG + 1],
          right  |-> [keys |-> SubSeq(keys, MIN_DEG + 2, Len(keys)),
                      kids |-> IF Len(kids) = 0 THEN <<>>
                               ELSE SubSeq(kids, MIN_DEG + 2, Len(kids))]]

RECURSIVE RefIns(_, _)
RefIns(T, k) ==
    LET i == Smaller(T.keys, k) + 1 IN
    IF Len(T.kids) = 0 THEN RefSplit(InsAt(T.keys, i, k), <<>>)
    ELSE LET r == RefIns(T.kids[i], k) IN
         IF r.split
         THEN RefSplit(InsAt(T.keys, i, r.median),
                       SubSeq(T.kids, 1, i - 1) \o <<r.left, r.right>>
                           \o SubSeq(T.kids, i + 1, Len(T.kids)))
         ELSE [split |-> FALSE,
               node  |-> [keys |-> T.keys,
                          kids |-> SubSeq(T.kids, 1, i - 1) \o <<r.node>>
                                      \o SubSeq(T.kids, i + 1, Len(T.kids))]]

RefInsert(T, k) ==
    LET r == RefIns(T, k) IN
    IF r.split THEN [keys |-> <<r.median>>, kids |-> <<r.left, r.right>>]
    ELSE r.node

SameAsReference(H, k, r) ==
    /\ r.h.st = "ok"
    /\ Abs(r.h, r.h.root_) = RefInsert(Abs(H, H.root_), k)

C19_SplitLikeInsertThenSplit ==
    (Returns /\ WellFormed(tree)) =>
        \A k \in Keys \ StoredKeys(tree) : SameAsReference(tree, k, insert(tree, k))

(***************************************************************************)
(* C20: in any sequence of insert, contains and find calls on a tree built *)
(* from empty no assertion of the node routines fails (full node at the    *)
(* entry of a split; room for a child, a child that is not null and an     *)
(* index in range at a child insertion; the index bound at a key           *)
(* insertion) and no empty child slot is followed.                         *)
(***************************************************************************)
C20_NoAssertionNoNullChild ==
    /\ tree.st = "ok"
    /\ \A k \in Keys : find(tree, k).res # "null"

(***************************************************************************)
(* C21: immediately after a split, before the pending key is placed, the   *)
(* split node and the new node R are well formed (keys in order, no        *)
(* children or one more than keys), each holds t - 1 or t keys, 2t - 1     *)
(* together, every key left in the node is smaller than the promoted       *)
(* median and every key of R is greater.                                   *)
(***************************************************************************)
NodeInOrder(n) ==
    /\ \A i, j \in 0..(n.n_keys_ - 1) : i < j => n.keys_[i] < n.keys_[j]
    /\ n.n_children_ \in {0, n.n_keys_ + 1}
    /\ \A i \in 0..(n.n_children_ - 1) : n.children_[i] # NULL

HalvesAfterSplit(left, R, median) ==
    /\ NodeInOrder(left)
    /\ NodeInOrder(R)
    /\ left.n_keys_ \in {MIN_DEG - 1, MIN_DEG}
    /\ R.n_keys_ \in {MIN_DEG - 1, MIN_DEG}
    /\ left.n_keys_ + R.n_keys_ = 2 * MIN_DEG - 1
    /\ is_leaf(left) = is_leaf(R)
    /\ \A k \in NodeKeys(left) : k < median
    /\ \A k \in NodeKeys(R) : k > median

SplitHalves(self, r) ==
    r.h.st = "ok" => HalvesAfterSplit(r.h.mem[self], r.h.mem[r.new_node], r.median)

C21_SplitHalves ==
    Returns =>
        \A a \in Nodes :
            (is_full(tree.mem[a]) /\ NodeInOrder(tree.mem[a])) =>
                \A k \in Keys \ NodeKeys(tree.mem[a]) :
                    SplitHalves(a, inner_split_(tree, a, k))

C21_InternalSplitSeen ==
    /\ Returns
    /\ \E a \in Nodes \ {tree.root_} :
          /\ is_full(tree.mem[a])
          /\ NodeInOrder(tree.mem[a])
    /\ \E a \in Nodes :
          /\ ~is_leaf(tree.mem[a])
          /\ is_full(tree.mem[a])
          /\ NodeInOrder(tree.mem[a])
          /\ \E k \in Keys \ NodeKeys(tree.mem[a]) :
                /\ k > tree.mem[a].keys_[MIN_DEG - 1]
                /\ k < tree.mem[a].keys_[MIN_DEG]

(***************************************************************************)
(* C22: when the root is split, a new root is made that holds exactly one  *)
(* key, the median, and exactly two children: the old root in slot 0 and   *)
(* the new right node in slot 1, each with parent_ the new root and index_ *)
(* 0 and 1; the new root has no parent and the tree's root pointer is      *)
(* replaced by it.  Stated for the split of every full root a sequence of  *)
(* inserts can build, with every pending key not in the root.              *)
(***************************************************************************)
NewRootOver(h, old, R, median) ==
    LET nr == h.root_ IN
    /\ nr \notin {NULL, old, R}
    /\ h.mem[nr].parent_ = NULL
    /\ h.mem[nr].n_keys_ = 1
    /\ h.mem[nr].keys_[0] = median
    /\ h.mem[nr].n_children_ = 2
    /\ h.mem[nr].children_[0] = old
    /\ h.mem[nr].children_[1] = R
    /\ h.mem[old].parent_ = nr /\ h.mem[old].index_ = 0
    /\ h.mem[R].parent_ = nr /\ h.mem[R].index_ = 1

RootSplit(old, r) ==
    r.h.st = "ok" => NewRootOver(r.h, old, r.new_node, r.median)

C22_RootSplit ==
    (Returns /\ is_full(tree.mem[tree.root_])) =>
        \A k \in Keys \ NodeKeys(tree.mem[tree.root_]) :
            RootSplit(tree.root_, inner_split_(tree, tree.root_, k))

RootSplitDone(r) == r.h.st = "ok" /\ r.new_node # NULL

C22_InternalRootSplit ==
    /\ Returns
    /\ is_full(tree.mem[tree.root_])
    /\ ~is_leaf(tree.mem[tree.root_])
    /\ \E k \in Keys \ NodeKeys(tree.mem[tree.root_]) :
          RootSplitDone(inner_split_(tree, tree.root_, k))

(***************************************************************************)
(* Key search on one node: a root leaf holding any set of at most          *)
(* MAX_KEYS_ keys in increasing order, as inserts leave it, searched for    *)
(* any key.                                                                *)
(***************************************************************************)
\* The leaf that holds the keys of S in increasing order.
LeafOfKeys(S) ==
    [EmptyNode(NULL) EXCEPT
        !.keys_ = [i \in KeySlots |->
                     IF i < Cardinality(S)
                     THEN CHOOSE k \in S : Cardinality({j \in S : j < k}) = i
                     ELSE 0],
        !.n_keys_ = Cardinality(S)]

InitFind ==
    /\ deg \in 1..MaxDeg
    /\ \E S \in SUBSET Keys :
          /\ Cardinality(S) <= MAX_KEYS_
          /\ tree = [mem |-> <<LeafOfKeys(S)>>, root_ |-> 1, st |-> "ok"]
          /\ present = S
          /\ nops = Cardinality(S)
          /\ net = Cardinality(S)
    /\ last = [op |-> "new", ret |-> "none"]
    /\ clone = NoClone
    /\ cret = "none"
    /\ sus = Moved

KeyFind(q) ==
    /\ last' = [op |-> "inner_key_find_", key |-> q,
                ret |-> inner_key_find_(tree.mem[tree.root_], q)]
    /\ UNCHANGED <<deg, tree, present, nops, net, clone, cret, sus>>

NextFind == \E q \in Keys : KeyFind(q)

SpecFind == InitFind /\ [][NextFind]_vars

(***************************************************************************)
(* C23: on a node whose keys K[0 .. n_keys_) are strictly increasing, the   *)
(* key search returns (true, i) with K[i] = q when q is among them, and     *)
(* otherwise (false, i) with i the index of the greatest key strictly less *)
(* than q: -1 when q is smaller than every key or the node is empty,       *)
(* n_keys_ - 1 when q is larger than every key.                            *)
(***************************************************************************)
KeyFindResult(n, q, r) ==
    LET idx == 0..(n.n_keys_ - 1) IN
    /\ r[1] = (q \in NodeKeys(n))
    /\ r[1] => r[2] \in idx /\ n.keys_[r[2]] = q
    /\ ~r[1] =>
          /\ r[2] \in -1..(n.n_keys_ - 1)
          /\ \A i \in idx : (i <= r[2]) <=> (n.keys_[i] < q)
          /\ (\A i \in idx : q < n.keys_[i]) => r[2] = -1
          /\ (\A i \in idx : q > n.keys_[i]) => r[2] = n.n_keys_ - 1

KeysBelow(n, k) == Cardinality({i \in 0..(n.n_keys_ - 1) : n.keys_[i] < k})

DescentOf(H, k, r) ==
    /\ r.path # <<>> /\ r.path[1] = H.root_
    /\ \A j \in 1..(Len(r.path) - 1) :
          LET n == H.mem[r.path[j]] IN
          /\ k \notin NodeKeys(n)
          /\ r.path[j + 1] = n.children_[KeysBelow(n, k)]
    /\ r.res = "null" =>
          LET n == H.mem[r.path[Len(r.path)]] IN
          k \notin NodeKeys(n) /\ n.children_[KeysBelow(n, k)] = NULL

FindResult(H, k, r) ==
    /\ (r.res = "found") <=> (contains(H, k) = "true")
    /\ r.res = "found" =>
          /\ r.node \in Nodes
          /\ r.node = r.path[Len(r.path)]
          /\ r.slot < H.mem[r.node].n_keys_
          /\ H.mem[r.node].keys_[r.slot] = k
    /\ DescentOf(H, k, r)

C24_FindAndContains ==
    Returns => \A k \in Keys : FindResult(tree, k, find(tree, k))

C24_FoundBelowRoot ==
    /\ Returns
    /\ \E k \in Keys : Len(find(tree, k).path) >= 3 /\ find(tree, k).res = "found"
    /\ \E k \in Keys : Len(find(tree, k).path) >= 3 /\ find(tree, k).res = "absent"

(***************************************************************************)
(* The steps of a removal, for the claims about rebalancing: where the key *)
(* leaves its leaf, and then every node rebalance_ is called on, with the  *)
(* heap it finds and what it chooses to do there.                          *)
(***************************************************************************)
\* The heap once the key (or, for a key in an internal node, its successor)
\* has left its leaf, and that leaf.
key_taken_(H, key) ==
    LET r == find_(H, H.root_, key) IN
    IF r.res # "found" THEN [h |-> H, leaf |-> NULL]
    ELSE IF is_leaf(H.mem[r.node])
    THEN [h |-> leaf_inner_remove_at_(H, r.node, r.slot), leaf |-> r.node]
    ELSE successor_taken_(H, r.node, r.slot)

\* The node a merging step calls leaf_merge_right_ on.
MergeTarget(step) ==
    IF step.choice = "merge_right" THEN step.node ELSE get_left_(step.h, step.node)

RECURSIVE RebalanceSteps(_, _)
RebalanceSteps(H, self) ==
    IF H.st # "ok" \/ self = NULL THEN <<>>
    ELSE LET step == [choice |-> rebalance_choice_(H, self), node |-> self, h |-> H] IN
         IF step.choice \in {"merge_right", "merge_left"}
         THEN LET m == merge_step_(H, MergeTarget(step)) IN
              <<step>> \o (IF m.again
                           THEN RebalanceSteps(m.h, H.mem[self].parent_)
                           ELSE <<>>)
         ELSE <<step>>

StepsTaken(s) == RebalanceSteps(s.h, s.leaf)

StepsOfRemove(H, key) == StepsTaken(key_taken_(H, key))

IsMerge(step) == step.choice \in {"merge_right", "merge_left"}

(***************************************************************************)
(* C25: merge-right is only invoked when the combined size fits, n_keys_   *)
(* of the node + 1 + n_keys_ of its right sibling S <= MAX_KEYS_, so the    *)
(* merged node never holds more than 2t keys; a node of t - 1 keys merged   *)
(* with a sibling of exactly t keys gives 2t.  Stated for every merge of    *)
(* the removal of every key from every tree inserts and removals build.    *)
(***************************************************************************)
MergeFits(step) ==
    LET H == step.h
        a == MergeTarget(step)
        S == get_right_(H, a)
        m == merge_step_(H, a).h
    IN  /\ S # NULL
        /\ H.mem[a].n_keys_ + 1 + H.mem[S].n_keys_ <= MAX_KEYS_
        /\ m.st = "ok" =>
              /\ m.mem[a].n_keys_ = H.mem[a].n_keys_ + 1 + H.mem[S].n_keys_
              /\ m.mem[a].n_keys_ <= 2 * MIN_DEG

MergesFit(steps) == \A j \in DOMAIN steps : IsMerge(steps[j]) => MergeFits(steps[j])

C25_MergeFits ==
    Returns => \A k \in Keys : MergesFit(StepsOfRemove(tree, k))

\* A merge of t - 1 keys with a sibling of exactly t keys.
MergeToFull(step) ==
    LET a == MergeTarget(step) IN
    /\ IsMerge(step)
    /\ step.h.mem[a].n_keys_ = MIN_DEG - 1
    /\ step.h.mem[get_right_(step.h, a)].n_keys_ = MIN_DEG
    /\ merge_step_(step.h, a).h.st = "ok"

SomeMergeToFull(steps) == \E j \in DOMAIN steps : MergeToFull(steps[j])

SomeMergeAbove(steps) == \E j \in DOMAIN steps : j > 1 /\ IsMerge(steps[j])

C25_MergeToFull ==
    /\ Returns
    /\ \E k \in Keys : SomeMergeToFull(StepsOfRemove(tree, k))
    /\ \E k \in Keys : SomeMergeAbove(StepsOfRemove(tree, k))

(***************************************************************************)
(* C26: when a removal leaves a leaf that is not the root with fewer than  *)
(* MIN_KEYS keys, the leaf borrows from its left sibling if it has one     *)
(* with more than MIN_KEYS keys, else from its right sibling if it has one *)
(* with more than MIN_KEYS keys, else it is merged, with its right sibling *)
(* if it has one and otherwise with its left sibling; when the leaf is the *)
(* root or still has MIN_KEYS keys nothing is rebalanced.  The siblings    *)
(* are the neighbours of the leaf among its parent's children.             *)
(***************************************************************************)
\* The slots of the parent of node a that hold a.
SlotsOf(H, a) ==
    LET P == H.mem[H.mem[a].parent_] IN
    {i \in 0..(P.n_children_ - 1) : P.children_[i] = a}

\* The keys of the neighbour d slots away from a, -1 if there is none.
NeighbourKeys(H, a, d) ==
    LET P == H.mem[H.mem[a].parent_] IN
    IF \E i \in SlotsOf(H, a) :
          (i + d) \in 0..(P.n_children_ - 1) /\ P.children_[i + d] # NULL
    THEN LET i == CHOOSE i \in SlotsOf(H, a) :
                    (i + d) \in 0..(P.n_children_ - 1) /\ P.children_[i + d] # NULL
         IN  H.mem[P.children_[i + d]].n_keys_
    ELSE -1

OrderOfRebalance(H, a) ==
    IF H.mem[a].parent_ = NULL \/ H.mem[a].n_keys_ >= MIN_KEYS THEN {"none"}
    ELSE IF NeighbourKeys(H, a, -1) > MIN_KEYS THEN {"borrow_left"}
    ELSE IF NeighbourKeys(H, a, 1) > MIN_KEYS THEN {"borrow_right"}
    ELSE IF NeighbourKeys(H, a, 1) >= 0 THEN {"merge_right"}
    ELSE IF NeighbourKeys(H, a, -1) >= 0 THEN {"merge_left"}
    ELSE {}

RebalancedInOrder(H, s, r) ==
    (s.leaf # NULL /\ s.h.st = "ok") =>
        /\ rebalance_choice_(s.h, s.leaf) \in OrderOfRebalance(s.h, s.leaf)
        /\ rebalance_choice_(s.h, s.leaf) = "none" => r.h = s.h

C26_RebalanceOrder ==
    Returns => \A k \in Keys : RebalancedInOrder(tree, key_taken_(tree, k), remove(tree, k))

(***************************************************************************)
(* Removals from larger trees: the tree is first built by inserting n keys *)
(* in ascending or in descending order, then keys it holds are removed.    *)
(***************************************************************************)
BuiltKeys == 1..MaxBuilt

\* The i-th key inserted, ascending (up) or descending.
BuiltKey(i, up) == IF up THEN i ELSE MaxBuilt + 1 - i

\* The tree after the first n inserts.
RECURSIVE Built(_, _)
Built(n, up) ==
    IF n = 0 THEN [mem |-> <<EmptyNode(NULL)>>, root_ |-> 1, st |-> "ok"]
    ELSE insert(Built(n - 1, up), BuiltKey(n, up)).h

InitRem ==
    /\ deg \in 1..MaxDeg
    /\ \E n \in 0..MaxBuilt : \E up \in BOOLEAN :
          /\ tree = Canon(Built(n, up))
          /\ present = {BuiltKey(i, up) : i \in 1..n}
          /\ nops = n
          /\ net = n
          /\ last = IF n = 0 THEN [op |-> "new", ret |-> "none"]
                    ELSE [op |-> "insert", ret |-> "true"]
    /\ clone = NoClone
    /\ cret = "none"
    /\ sus = Moved

\* remove(k) of a key the tree holds; nops - net is twice the removals made.
RemoveHeld(k) ==
    /\ tree.st = "ok"
    /\ k \in present
    /\ nops - net < 2 * MaxRemoved
    /\ nops' = nops + 1
    /\ deg' = deg
    /\ present' = present \ {k}
    /\ Called("remove", remove(tree, k), -1)
    /\ UNCHANGED <<clone, cret, sus>>

NextRem == \E k \in BuiltKeys : RemoveHeld(k)

SpecRem == InitRem /\ [][NextRem]_vars

(***************************************************************************)
(* Borrowing, for C27.                                                     *)
(***************************************************************************)
IsBorrow(step) == step.choice \in {"borrow_left", "borrow_right"}

Lender(step) ==
    IF step.choice = "borrow_left" THEN get_left_(step.h, step.node)
    ELSE get_right_(step.h, step.node)

Separator(step) ==
    IF step.choice = "borrow_left" THEN step.h.mem[step.node].index_ - 1
    ELSE step.h.mem[step.node].index_

\* The child that changes hands, NULL between leaves.
ChildMoved(step) ==
    LET l == step.h.mem[Lender(step)] IN
    IF is_leaf(step.h.mem[step.node]) THEN NULL
    ELSE IF step.choice = "borrow_left" THEN l.children_[l.n_children_ - 1]
    ELSE l.children_[0]

\* What a borrow changes in the nodes it is about; Others are the nodes it
\* must leave as they are.
BorrowChanges(step, A, Others) ==
    LET H == step.h
        a == step.node
        L == Lender(step)
        p == H.mem[a].parent_
        sep == Separator(step)
        kid == ChildMoved(step)
    IN  A.st = "ok" =>
        /\ DOMAIN A.mem = DOMAIN H.mem /\ A.root_ = H.root_
        /\ A.mem[a].n_keys_ = H.mem[a].n_keys_ + 1
        /\ A.mem[L].n_keys_ = H.mem[L].n_keys_ - 1
        /\ A.mem[p] = [H.mem[p] EXCEPT !.keys_[sep] = A.mem[p].keys_[sep]]
        /\ kid # NULL => /\ A.mem[kid].parent_ = a
                         /\ A.mem[a].n_children_ = H.mem[a].n_children_ + 1
                         /\ A.mem[L].n_children_ = H.mem[L].n_children_ - 1
        /\ \A b \in Others : A.mem[b] = H.mem[b]

\* The children that shift by one slot when a child changes hands: the
\* borrower's own children in a borrow-left, the lender's other children in a
\* borrow-right.
Shifted(step) ==
    LET n == step.h.mem[step.node]
        l == step.h.mem[Lender(step)]
    IN  IF is_leaf(n) THEN {}
        ELSE IF step.choice = "borrow_left"
        THEN {n.children_[i] : i \in 0..(n.n_children_ - 1)}
        ELSE {l.children_[i] : i \in 1..(l.n_children_ - 1)}

Involved(step) ==
    {step.node, Lender(step), step.h.mem[step.node].parent_, ChildMoved(step)}

Reindexed(step, A) ==
    \A b \in Shifted(step) :
        A.mem[b] = [step.h.mem[b] EXCEPT
                      !.index_ = IF step.choice = "borrow_left" THEN @ + 1 ELSE @ - 1]

BorrowTouchesOnly(step) ==
    BorrowChanges(step, rebalance_(step.h, step.node),
                  DOMAIN step.h.mem \ Involved(step))

BorrowTouchesOnlyAndShifts(step, A) ==
    /\ BorrowChanges(step, A, DOMAIN step.h.mem \ (Involved(step) \cup Shifted(step)))
    /\ A.st = "ok" => Reindexed(step, A)

BorrowsEnd(steps) ==
    \A j \in DOMAIN steps :
        IsBorrow(steps[j]) => j = Len(steps) /\ BorrowTouchesOnly(steps[j])

BorrowsEndAndShift(steps) ==
    \A j \in DOMAIN steps :
        IsBorrow(steps[j]) =>
            /\ j = Len(steps)
            /\ BorrowTouchesOnlyAndShifts(steps[j], rebalance_(steps[j].h, steps[j].node))

SomeBorrow(steps, c, lo) ==
    \E j \in DOMAIN steps :
        /\ j >= lo /\ steps[j].choice = c
        /\ rebalance_(steps[j].h, steps[j].node).st = "ok"

(***************************************************************************)
(* C27 as stated: a borrow never propagates.  It changes only the          *)
(* underflowed node, the lending sibling and the one separator key in the  *)
(* parent, plus, for internal nodes, the one child moved; the parent's     *)
(* n_keys_ and n_children_ and every other node are unchanged; the lender  *)
(* has one key fewer, the borrower one more; no further rebalance follows. *)
(***************************************************************************)
C27_BorrowTouchesFour ==
    Returns => \A k \in BuiltKeys : BorrowsEnd(StepsOfRemove(tree, k))

(***************************************************************************)
(* C27 amended: as stated, except that between internal nodes the children *)
(* that shift by one slot to make or close the gap of the child moved (the *)
(* borrower's own children in a borrow-left, the lender's remaining        *)
(* children in a borrow-right) have their index_ changed by one, and       *)
(* nothing else.                                                           *)
(***************************************************************************)
C27_BorrowIsLocal ==
    Returns => \A k \in BuiltKeys : BorrowsEndAndShift(StepsOfRemove(tree, k))

\* A borrow between internal nodes, a level above the leaf the key left.
C27_BorrowSeen ==
    /\ Returns
    /\ \E k \in BuiltKeys : SomeBorrow(StepsOfRemove(tree, k), "borrow_left", 2)

(***************************************************************************)
(* C28: the height changes by at most one per public call and only at the *)
(* root.  An insert raises it by one exactly when the root itself is split *)
(* (every node from the leaf the key goes to up to the root is full), and  *)
(* then the root pointer changes; a removal lowers it by one exactly when  *)
(* a merge takes the last key out of the root, and then the merged node is *)
(* the root, without parent and with index 0; no other split, borrow or    *)
(* merge changes the height or the root pointer.                           *)
(***************************************************************************)
Height(H) ==
    CHOOSE d \in LeafDepths(H, H.root_, 1) :
        \A e \in LeafDepths(H, H.root_, 1) : e <= d

RECURSIVE FullUpToRoot(_, _)
FullUpToRoot(H, a) ==
    /\ is_full(H.mem[a])
    /\ H.mem[a].parent_ = NULL \/ FullUpToRoot(H, H.mem[a].parent_)

\* insert(k) splits its way up to the root.
RootIsSplit(H, k) ==
    LET d == insert_descend(H, H.root_, k) IN
    d.res = "leaf" /\ FullUpToRoot(H, d.node)

\* One of the merges takes the last key out of the root.
RootIsEmptied(steps) ==
    \E j \in DOMAIN steps :
        LET H == steps[j].h
            p == H.mem[steps[j].node].parent_
        IN  /\ IsMerge(steps[j])
            /\ H.mem[p].parent_ = NULL
            /\ H.mem[p].n_keys_ = 1

HeightAfterInsert(H, k, r) ==
    r.h.st = "ok" =>
        /\ Height(r.h) - Height(H) = IF RootIsSplit(H, k) THEN 1 ELSE 0
        /\ (r.h.root_ # H.root_) <=> RootIsSplit(H, k)

HeightAfterRemove(H, steps, r) ==
    r.h.st = "ok" =>
        /\ Height(r.h) - Height(H) = IF RootIsEmptied(steps) THEN -1 ELSE 0
        /\ (r.h.root_ # H.root_) <=> RootIsEmptied(steps)
        /\ RootIsEmptied(steps) =>
              /\ r.h.root_ \in Kids(H.mem[H.root_])
              /\ r.h.mem[r.h.root_].parent_ = NULL
              /\ r.h.mem[r.h.root_].index_ = 0

C28_HeightAtRoot ==
    Returns => \A k \in Keys :
        /\ HeightAfterInsert(tree, k, insert(tree, k))
        /\ HeightAfterRemove(tree, StepsOfRemove(tree, k), remove(tree, k))

\* A removal has just merged the root away into one full leaf, which the next
\* insert splits.
C28_RootMergedThenFull ==
    /\ Returns
    /\ last = [op |-> "remove", ret |-> "true"]
    /\ is_leaf(tree.mem[tree.root_])
    /\ is_full(tree.mem[tree.root_])
    /\ \E k \in Keys : RootIsSplit(tree, k) /\ insert(tree, k).h.st = "ok"

(***************************************************************************)
(* C29: removing the key at index i of an internal node replaces K[i] by   *)
(* its in-order successor, the next larger key of the tree, which is the   *)
(* smallest key of the leftmost leaf of the subtree C[i + 1] and is        *)
(* removed from that leaf; n_keys_ and n_children_ of the internal node    *)
(* and every other node are unchanged by the replacement, and only that    *)
(* leaf is rebalanced, if it underflowed.                                  *)
(***************************************************************************)
\* The keys of the tree above k.
KeysAbove(H, k) == {x \in SubtreeKeys(H, H.root_) : x > k}

SuccessorReplaces(H, k, f, s, r) ==
    (f.res = "found" /\ ~is_leaf(H.mem[f.node])) =>
        /\ s.h.st = "ok"
        /\ s.leaf = leftmost_leaf_(H, H.mem[f.node].children_[f.slot + 1])
        /\ is_leaf(H.mem[s.leaf])
        /\ KeysAbove(H, k) # {}
        /\ s.h.mem[f.node].keys_[f.slot] = H.mem[s.leaf].keys_[0]
        /\ \A x \in KeysAbove(H, k) : s.h.mem[f.node].keys_[f.slot] <= x
        /\ s.h.mem[f.node].keys_[f.slot] \in KeysAbove(H, k)
        /\ NodeKeys(s.h.mem[s.leaf]) = NodeKeys(H.mem[s.leaf]) \ {H.mem[s.leaf].keys_[0]}
        /\ s.h.mem[s.leaf].n_keys_ = H.mem[s.leaf].n_keys_ - 1
        /\ s.h.mem[f.node].n_keys_ = H.mem[f.node].n_keys_
        /\ s.h.mem[f.node].n_children_ = H.mem[f.node].n_children_
        /\ \A b \in DOMAIN H.mem \ {f.node, s.leaf} : s.h.mem[b] = H.mem[b]
        /\ r.h = rebalance_(s.h, s.leaf)
        /\ s.h.mem[s.leaf].n_keys_ >= MIN_KEYS => r.h = s.h

C29_SuccessorReplaces ==
    Returns => \A k \in Keys :
        SuccessorReplaces(tree, k, find(tree, k), key_taken_(tree, k), remove(tree, k))

(***************************************************************************)
(* Monotone inserts: keys of 1..MaxBuilt inserted into an empty tree in    *)
(* strictly increasing or strictly decreasing order.  The caller's int     *)
(* variable keeps the key it passed, so sus is the key inserted last.      *)
(***************************************************************************)
\* k continues the sequence: it is beyond the last key, on the side the
\* sequence has been moving to.
Monotone(k) ==
    \/ present = {}
    \/ k > sus /\ \A x \in present : x <= sus
    \/ k < sus /\ \A x \in present : x >= sus

InsertMono(k) ==
    /\ tree.st = "ok"
    /\ nops < MaxMono
    /\ Monotone(k)
    /\ nops' = nops + 1
    /\ deg' = deg
    /\ present' = present \cup {k}
    /\ sus' = k
    /\ Called("insert", insert(tree, k), 1)
    /\ UNCHANGED <<clone, cret>>

NextMono == \E k \in BuiltKeys : InsertMono(k)

SpecMono == Init /\ [][NextMono]_vars

\* The step is an insert that returns with more nodes than before: some node
\* was split.
SplitsNode == tree'.st = "ok" /\ Len(tree'.mem) > Len(tree.mem)

(***************************************************************************)
(* C30 as stated: with t = 1, inserting a strictly monotone sequence into  *)
(* an empty tree splits a node at every third insert: on the 3rd, then the *)
(* 6th, the 9th, ... and on no other.                                      *)
(***************************************************************************)
C30_SplitEveryThird ==
    [][(deg = 1 /\ nops' = nops + 1 /\ tree'.st = "ok") =>
          (SplitsNode <=> (nops' % 3 = 0))]_vars

(***************************************************************************)
(* C30 amended: with t = 1, inserting a strictly monotone sequence into an *)
(* empty tree splits a node on the 3rd insert and then on every second     *)
(* insert: the 5th, the 7th, the 9th, ... and on no other.                 *)
(***************************************************************************)
C30_SplitEverySecond ==
    [][(deg = 1 /\ nops' = nops + 1 /\ tree'.st = "ok") =>
          (SplitsNode <=> (nops' >= 3 /\ nops' % 2 = 1))]_vars

\* Nine monotone inserts have split the leaf four times and the root twice.
C30_NineInserted ==
    /\ Returns
    /\ deg = 1
    /\ nops = 9
    /\ Cardinality(present) = 9
    /\ Height(tree) = 3
====
